---- MODULE Spec2Model ----
(***************************************************************************)
(* asm-processor: the ELF object model (ElfFile, Section, Symbol,          *)
(* Relocation) and the splicer fixup_objfile of src/asm-processor.py.      *)
(*                                                                         *)
(* Spec   : one call of fixup_objfile, one action per step of its body.    *)
(*          Objects are held as parsed (sections, symbols, relocations);   *)
(*          section payloads are sequences of bytes (.text, .reginfo), of  *)
(*          packed records (symbol and relocation tables) or of            *)
(*          NUL-terminated                                                 *)
(*          strings (string tables).                                       *)
(* SpecRT : ElfFile(data); write; ElfFile(written) on byte sequences.      *)
(***************************************************************************)
EXTENDS Integers, Sequences, FiniteSets, TLC

(* ---------------------------------------------------------------- *)
(* Program constants                                                *)
(* ---------------------------------------------------------------- *)
SHN_UNDEF == 0
SHN_XINDEX == 65535
STT_NOTYPE == 0
STT_OBJECT == 1
STT_FUNC == 2
STB_LOCAL == 0
STB_GLOBAL == 1
SHT_NULL == 0
SHT_PROGBITS == 1
SHT_SYMTAB == 2
SHT_STRTAB == 3
SHT_RELA == 4
SHT_NOBITS == 8
SHT_REL == 9
SHT_MIPS_REGINFO == 1879048198
SHF_LINK_ORDER == 128
R_MIPS_32 == 2
R_MIPS_26 == 4
\* struct format 'H': the largest value it packs
MaxHalf == 65535
\* "for i in range(20)" of the reginfo merge
ReginfoMergeLen == 20
\* sizes of the packed records
EhdrSize == 52
ShdrSize == 40
SymSize == 16
RelSize == 8
RelaSize == 12

(* ---------------------------------------------------------------- *)
(* Bounds of the model                                              *)
(* ---------------------------------------------------------------- *)
\* num_instr of a spliced function ranges over 1..MaxInstr
MaxInstr == 2
\* the .text payloads are 4 - TextSpread .. 4 words long
TextSpread == 1

(* ---------------------------------------------------------------- *)
(* Python helpers                                                   *)
(* ---------------------------------------------------------------- *)
Min(a, b) == IF a < b THEN a ELSE b
Max(a, b) == IF a > b THEN a ELSE b

\* s[a:b] of a Python sequence (0-based, half-open, clamped to the length)
Slice(s, a, b) ==
    LET lo == Min(a, Len(s))
        hi == Min(b, Len(s))
    IN  IF hi > lo THEN SubSeq(s, lo + 1, hi) ELSE <<>>

\* s[a:b] = r on a Python list: the slice is replaced by r, whatever its length
SliceAssign(s, a, b, r) ==
    LET lo == Min(a, Len(s))
        hi == Max(lo, Min(b, Len(s)))
    IN  SubSeq(s, 1, lo) \o r \o SubSeq(s, hi + 1, Len(s))

RECURSIVE BitOr(_, _)
\* a | b on non-negative integers
BitOr(a, b) ==
    IF a = 0 THEN b
    ELSE IF b = 0 THEN a
    ELSE Max(a % 2, b % 2) + 2 * BitOr(a \div 2, b \div 2)

RECURSIVE BitAnd(_, _)
\* a & b on non-negative integers
BitAnd(a, b) ==
    IF a = 0 \/ b = 0 THEN 0
    ELSE (a % 2) * (b % 2) + 2 * BitAnd(a \div 2, b \div 2)

RECURSIVE Flatten(_)
\* b''.join(parts)
Flatten(parts) ==
    IF parts = <<>> THEN <<>> ELSE Head(parts) \o Flatten(Tail(parts))

\* the k-th smallest element (k = 1..) of a set of integers
Nth(P, k) == CHOOSE i \in P : Cardinality({ j \in P : j < i }) = k - 1

(* ---------------------------------------------------------------- *)
(* String tables: the payload b'a\0bc\0' is held as <<"a", "bc">>    *)
(* ---------------------------------------------------------------- *)
RECURSIVE StrtabLen(_)
\* len(data) of a string table, in bytes
StrtabLen(t) ==
    IF t = <<>> THEN 0 ELSE Len(Head(t)) + 1 + StrtabLen(Tail(t))

\* the byte offset at which the k-th string (k = 1..) starts
StrOffset(t, k) == StrtabLen(SubSeq(t, 1, k - 1))

\* Section.lookup_str for an offset that starts a string: found = FALSE
\* stands for the failed assert (no NUL at or after the offset)
lookup_str(t, index) ==
    LET hits == { k \in 1..Len(t) : StrOffset(t, k) = index }
    IN  IF hits = {} THEN [found |-> FALSE, str |-> ""]
        ELSE [found |-> TRUE, str |-> t[CHOOSE k \in hits : TRUE]]

\* Section.add_str: (new payload, returned offset)
add_str(t, string) == [data |-> Append(t, string), ret |-> StrtabLen(t)]

(* ---------------------------------------------------------------- *)
(* Symbol and Relocation                                            *)
(* ---------------------------------------------------------------- *)
\* the value of an attribute that was never assigned (reading it raises)
Unset == -1

\* a parsed Symbol; uid stands for the identity of the Python object
Symbol(uid, name, st_name, st_value, bind, type, st_shndx) ==
    [uid |-> uid, name |-> name, st_name |-> st_name, st_value |-> st_value,
     st_size |-> 0, st_other |-> 0, st_shndx |-> st_shndx,
     bind |-> bind, type |-> type, new_index |-> Unset]

\* Symbol.to_bin: the packed '>IIIBBH' record
SymbolToBin(s) ==
    [st_name |-> s.st_name, st_value |-> s.st_value, st_size |-> s.st_size,
     st_info |-> BitOr(s.bind * 16, s.type), st_other |-> s.st_other,
     st_shndx |-> s.st_shndx]

\* struct.pack of a Symbol succeeds
SymbolPacks(s) ==
    /\ BitOr(s.bind * 16, s.type) <= 255
    /\ s.st_shndx <= MaxHalf

\* Relocation.__init__ on a packed record
Relocation(packed, sh_type) ==
    [sh_type |-> sh_type, r_offset |-> packed.r_offset, r_info |-> packed.r_info,
     r_addend |-> packed.r_addend,
     sym_index |-> packed.r_info \div 256, rel_type |-> packed.r_info % 256]

\* the r_info that Relocation.to_bin computes
RelInfo(rel) == BitOr(rel.sym_index * 256, rel.rel_type)

\* Relocation.to_bin: the packed '>II' / '>III' record (REL carries no addend)
RelToBin(rel) ==
    [r_offset |-> rel.r_offset, r_info |-> RelInfo(rel),
     r_addend |-> IF rel.sh_type = SHT_REL THEN 0 ELSE rel.r_addend]

\* struct.pack of a Relocation succeeds: r_info fits 'I', 32 bits
RelPacks(rel) == rel.sym_index < 16777216

\* a packed relocation as found in an input object
PackedRel(r_offset, sym_index, rel_type, r_addend) ==
    [r_offset |-> r_offset, r_info |-> sym_index * 256 + rel_type,
     r_addend |-> r_addend]

(* ---------------------------------------------------------------- *)
(* Section and ElfFile                                              *)
(* ---------------------------------------------------------------- *)
is_rel(s) == s.sh_type = SHT_REL \/ s.sh_type = SHT_RELA

\* len(s.data) in bytes
DataLen(s) ==
    IF s.sh_type = SHT_SYMTAB THEN SymSize * Len(s.data)
    ELSE IF s.sh_type = SHT_REL THEN RelSize * Len(s.data)
    ELSE IF s.sh_type = SHT_RELA THEN RelaSize * Len(s.data)
    ELSE IF s.sh_type = SHT_STRTAB THEN StrtabLen(s.data)
    ELSE Len(s.data)

\* Section.__init__ followed by late_init, for a section given by its parts
Section(index, name, sh_name, sh_type, sh_flags, sh_link, sh_info, sh_addralign, sh_entsize, data, symbol_entries) ==
    [index |-> index, name |-> name, sh_name |-> sh_name, sh_type |-> sh_type,
     sh_flags |-> sh_flags, sh_addr |-> 0, sh_offset |-> 0, sh_size |-> 0,
     sh_link |-> sh_link, sh_info |-> sh_info, sh_addralign |-> sh_addralign,
     sh_entsize |-> sh_entsize, data |-> data,
     symbol_entries |-> symbol_entries,
     relocations |-> IF sh_type = SHT_REL \/ sh_type = SHT_RELA
                     THEN [i \in 1..Len(data) |-> Relocation(data[i], sh_type)]
                     ELSE <<>>]

\* len(self.sections): the sections held one by one and the nfill further
\* sections (empty SHT_PROGBITS sections that no step reads)
NumSections(elf) == Len(elf.sections) + elf.nfill

\* the section with the given index
Sec(elf, index) == elf.sections[CHOOSE i \in 1..Len(elf.sections) : elf.sections[i].index = index]

\* the position in elf.sections of the section with the given index
SecPos(elf, index) == CHOOSE i \in 1..Len(elf.sections) : elf.sections[i].index = index

\* ElfFile.find_section: the index of the first section of that name, or
\* None
None == -1
find_section(elf, name) ==
    LET hits == { i \in 1..Len(elf.sections) : elf.sections[i].name = name }
    IN  IF hits = {} THEN None
        ELSE elf.sections[CHOOSE i \in hits : \A j \in hits : i <= j].index

\* Section.find_symbol: (st_shndx, st_value) of the first symbol of that
\* name, or None
find_symbol(symtab, name) ==
    LET hits == { i \in 1..Len(symtab.symbol_entries) : symtab.symbol_entries[i].name = name }
    IN  IF hits = {} THEN <<>>
        ELSE LET s == symtab.symbol_entries[CHOOSE i \in hits : \A j \in hits : i <= j]
             IN  <<s.st_shndx, s.st_value>>

\* section.relocated_by: the indices of the sections that late_init has
\* appended, in the order of the section list
relocated_by(elf, index) ==
    LET P == { i \in 1..Len(elf.sections) :
                  is_rel(elf.sections[i]) /\ elf.sections[i].sh_info = index }
    IN  [k \in 1..Cardinality(P) |-> elf.sections[Nth(P, k)].index]

\* pad_out, were nothing written
pad_out_nothing(outidx, align) == outidx

\* pad_out of ElfFile.write: the cursor after "if align and outidx % align:
\* write_out(b'\0' * (align - outidx % align))", that is outidx rounded up
\* to a multiple of align
pad_out(outidx, align) ==
    IF align = 0 THEN outidx ELSE ((outidx + align - 1) \div align) * align

\* the loop "for s in self.sections" of ElfFile.write on one section, given
\* by its meta (sh_type, sh_addralign, sh_offset, len of data), the cursor
\* being at outidx: is the payload written, and where
IsWritten(m) == m.sh_type # SHT_NOBITS /\ m.sh_type # SHT_NULL
PlacedAt(m, outidx) == IF IsWritten(m) THEN pad_out(outidx, m.sh_addralign) ELSE m.sh_offset

RECURSIVE WriteOffsets(_, _, _)
\* that loop from position i on with the cursor at outidx: the sh_offset
\* that every section is left with
WriteOffsets(metas, i, outidx) ==
    IF i > Len(metas) THEN <<>>
    ELSE <<PlacedAt(metas[i], outidx)>>
           \o WriteOffsets(metas, i + 1,
                IF IsWritten(metas[i]) THEN PlacedAt(metas[i], outidx) + metas[i].len ELSE outidx)

RECURSIVE WriteCursor(_, _, _)
\* that loop from position i on with the cursor at outidx: the cursor after
\* the last section
WriteCursor(metas, i, outidx) ==
    IF i > Len(metas) THEN outidx
    ELSE WriteCursor(metas, i + 1,
            IF IsWritten(metas[i]) THEN PlacedAt(metas[i], outidx) + metas[i].len ELSE outidx)

\* the metas of the sections of a parsed object
Metas(sections) ==
    [i \in 1..Len(sections) |->
        [sh_type |-> sections[i].sh_type, sh_addralign |-> sections[i].sh_addralign,
         sh_offset |-> sections[i].sh_offset, len |-> DataLen(sections[i])]]

\* Section.header_to_bin: sh_size follows the payload unless SHT_NOBITS
header_to_bin(s) ==
    IF s.sh_type # SHT_NOBITS THEN [s EXCEPT !.sh_size = DataLen(s)] ELSE s

\* the object as ElfFile.write leaves it: e_shnum, every sh_offset and
\* sh_size, e_shoff (the nfill further sections are empty, so they do not
\* move the cursor)
Written(elf) ==
    LET offsets == WriteOffsets(Metas(elf.sections), 1, EhdrSize)
    IN  [elf EXCEPT
          !.elf_header.e_shnum = NumSections(elf),
          !.elf_header.e_shoff = pad_out(WriteCursor(Metas(elf.sections), 1, EhdrSize), 4),
          !.sections = [i \in 1..Len(elf.sections) |->
                header_to_bin([elf.sections[i] EXCEPT !.sh_offset = offsets[i]])]]

\* struct.pack of the ELF header succeeds ('H' for e_shnum)
HeaderPacks(elf) == NumSections(elf) <= MaxHalf

(* ---------------------------------------------------------------- *)
(* Input objects                                                    *)
(* ---------------------------------------------------------------- *)
\* the offset of a name in a string table that holds it
NameOffset(t, name) ==
    StrOffset(t, CHOOSE k \in 1..Len(t) : t[k] = name /\ \A j \in 1..(k - 1) : t[j] # name)

\* symbols given as <<name, st_value, bind, type, st_shndx>>, parsed
\* against the string table of their names
ParsedSymbols(tag, syms, strtab) ==
    [i \in 1..Len(syms) |->
        Symbol(tag \o ToString(i - 1), syms[i][1], NameOffset(strtab, syms[i][1]),
               syms[i][2], syms[i][3], syms[i][4], syms[i][5])]

\* an object file as a toolchain emits it, parsed: parts are
\* <<name, sh_type, sh_flags, sh_link, sh_info, sh_addralign, sh_entsize, data>>
\* in section order, the symbol table at index symtab, the section names
\* at index shstrndx
ElfFile(tag, parts, syms, symtab, shstrndx, nfill) ==
    LET shstr == [i \in 1..Len(parts) |-> parts[i][1]]
        strtab == [i \in 1..Len(syms) |-> syms[i][1]]
        entries == ParsedSymbols(tag, syms, strtab)
        data(i) == IF i = symtab + 1 THEN [k \in 1..Len(entries) |-> SymbolToBin(entries[k])]
                   ELSE IF i = parts[symtab + 1][4] + 1 THEN strtab
                   ELSE IF i = shstrndx + 1 THEN shstr
                   ELSE parts[i][8]
        raw == [elf_header |-> [e_shnum |-> Len(parts) + nfill, e_shoff |-> 0,
                                e_shstrndx |-> shstrndx],
                symtab |-> symtab, nfill |-> nfill,
                sections |-> [i \in 1..Len(parts) |->
                    Section(i - 1, parts[i][1], NameOffset(shstr, parts[i][1]),
                            parts[i][2], parts[i][3], parts[i][4], parts[i][5],
                            parts[i][6], parts[i][7], data(i),
                            IF i = symtab + 1 THEN entries ELSE <<>>)]]
    IN  Written(raw)

\* a payload of len bytes, byte i (0-based) being base + i
Bytes(len, base) == [i \in 1..len |-> base + i - 1]

\* the lengths, in words, of the .text payloads
TextWords == { 4 - k : k \in 0..TextSpread }

\* the relocation section of the given name and type for section info
RelPart(name, sh_type, info, rels) ==
    <<name, sh_type, 0, 3, info, 4, IF sh_type = SHT_REL THEN RelSize ELSE RelaSize, rels>>

\* the index of the first symbol of that name among syms
SymIndex(syms, name) ==
    (CHOOSE i \in 1..Len(syms) : syms[i][1] = name /\ \A j \in 1..(i - 1) : syms[j][1] # name) - 1

(* The compiler's objects: .text at index 1, .data at index 6.  The       *)
(* placeholders tempfun0 and tempfun1 label .text; foo is undefined, bar  *)
(* lies in .data.                                                         *)
NullSym == <<"", 0, STB_LOCAL, STT_NOTYPE, SHN_UNDEF>>

TargetSymtabs ==
    { << NullSym, <<"tempfun0", 0, STB_GLOBAL, STT_FUNC, 1>>,
         <<"foo", 0, STB_GLOBAL, STT_NOTYPE, SHN_UNDEF>>,
         <<"tempfun1", v1, STB_GLOBAL, STT_FUNC, 1>>,
         <<"bar", 0, STB_GLOBAL, STT_OBJECT, 6>> >> : v1 \in {8, 6} }
    \cup
    { << NullSym, <<"foo", 0, STB_GLOBAL, STT_NOTYPE, SHN_UNDEF>>,
         <<"bar", 0, STB_GLOBAL, STT_OBJECT, 6>>,
         <<"tempfun0", 0, STB_GLOBAL, STT_FUNC, 1>>,
         <<"tempfun1", 8, STB_GLOBAL, STT_FUNC, 1>> >> }

\* the sections after .data and the number of further sections
TargetExtras(syms) ==
    LET foo == SymIndex(syms, "foo")
        bar == SymIndex(syms, "bar")
        tmp == SymIndex(syms, "tempfun1")
    IN  { [parts |-> <<>>, nfill |-> 0],
          [parts |-> << RelPart(".rel.text", SHT_REL, 1,
                                << PackedRel(0, foo, R_MIPS_26, 0), PackedRel(4, bar, R_MIPS_32, 0) >>),
                        RelPart(".rel.data", SHT_REL, 6, << PackedRel(0, bar, R_MIPS_32, 0) >>) >>,
           nfill |-> 0],
          [parts |-> << RelPart(".rel.text", SHT_REL, 1, << PackedRel(0, foo, R_MIPS_26, 0) >>),
                        RelPart(".rela.text", SHT_RELA, 1, << PackedRel(4, bar, R_MIPS_32, 4) >>) >>,
           nfill |-> 0],
          [parts |-> << RelPart(".rel.text", SHT_REL, 1, << PackedRel(12, tmp, R_MIPS_26, 0) >>) >>,
           nfill |-> 0],
          [parts |-> <<>>, nfill |-> MaxHalf - 7] }

TargetObjects ==
    { ElfFile("T",
              << <<"", SHT_NULL, 0, 0, 0, 0, 0, <<>> >>,
                 <<".text", SHT_PROGBITS, 6, 0, 0, 16, 0, Bytes(4 * w, 1)>>,
                 <<".reginfo", SHT_MIPS_REGINFO, 0, 0, 0, 4, 0, Bytes(24, 1)>>,
                 <<".symtab", SHT_SYMTAB, 0, 4, 1, 4, SymSize, <<>> >>,
                 <<".strtab", SHT_STRTAB, 0, 0, 0, 1, 0, <<>> >>,
                 <<".shstrtab", SHT_STRTAB, 0, 0, 0, 1, 0, <<>> >>,
                 <<".data", SHT_PROGBITS, 3, 0, 0, 4, 0, Bytes(4, 60)>> >> \o x.parts,
              syms, 3, 5, x.nfill)
      : <<w, syms, x>> \in { <<w, syms, x>> \in TextWords \X TargetSymtabs \X UNION { TargetExtras(t) : t \in TargetSymtabs } :
                                x \in TargetExtras(syms) } }

(* The assembler's objects: .text at index 2.                             *)
SourceSymtabs ==
    { [syms |-> << NullSym, <<"lab", 4, STB_LOCAL, STT_NOTYPE, 2>> >>, nlocal |-> 2],
      [syms |-> << NullSym, <<"func0", 0, STB_GLOBAL, STT_NOTYPE, 2>>,
                   <<"helper", 4, STB_GLOBAL, STT_OBJECT, 2>>,
                   <<"ext", 0, STB_GLOBAL, STT_NOTYPE, SHN_UNDEF>> >>, nlocal |-> 1],
      [syms |-> << NullSym, <<"lab", 4, STB_LOCAL, STT_NOTYPE, 2>>,
                   <<"func0", 0, STB_GLOBAL, STT_NOTYPE, SHN_UNDEF>>,
                   <<"func1", 8, STB_GLOBAL, STT_NOTYPE, 2>>,
                   <<"tempfun0", 0, STB_GLOBAL, STT_NOTYPE, SHN_UNDEF>> >>, nlocal |-> 2],
      [syms |-> << NullSym, <<"func0", 0, STB_GLOBAL, STT_NOTYPE, 2>>,
                   <<"dat", 0, STB_GLOBAL, STT_OBJECT, 1>> >>, nlocal |-> 1] }

\* the relocation sections of an assembled object with n symbols
SourceExtras(n) ==
    { <<>>,
      << RelPart(".rel.text", SHT_REL, 2, << PackedRel(0, n - 1, R_MIPS_26, 0) >>) >>,
      << RelPart(".rel.text", SHT_REL, 2, << PackedRel(0, n - 1, R_MIPS_26, 0) >>),
         RelPart(".rel.text.1", SHT_REL, 2, << PackedRel(8, n - 2, R_MIPS_32, 0) >>) >>,
      << RelPart(".rel.text", SHT_REL, 2, << PackedRel(4, n - 1, R_MIPS_26, 0) >>),
         RelPart(".rela.text", SHT_RELA, 2, << PackedRel(8, n - 1, R_MIPS_32, 8) >>),
         RelPart(".rela.text.1", SHT_RELA, 2, << PackedRel(12, n - 1, R_MIPS_32, 12) >>) >>,
      << RelPart(".rel.text", SHT_REL, 2, << PackedRel(0, n, R_MIPS_26, 0) >>) >> }

SourceObjects ==
    { ElfFile("S",
              << <<"", SHT_NULL, 0, 0, 0, 0, 0, <<>> >>,
                 <<".reginfo", SHT_MIPS_REGINFO, 0, 0, 0, 4, 0, Bytes(rlen, 96)>>,
                 <<".text", SHT_PROGBITS, 6, 0, 0, 16, 0, Bytes(4 * w, 101)>>,
                 <<".symtab", SHT_SYMTAB, 0, 4, st.nlocal, 4, SymSize, <<>> >>,
                 <<".strtab", SHT_STRTAB, 0, 0, 0, 1, 0, <<>> >>,
                 <<".shstrtab", SHT_STRTAB, 0, 0, 0, 1, 0, <<>> >> >> \o x,
              st.syms, 3, 5, 0)
      : <<w, rlen, st, x>> \in { <<w, rlen, st, x>> \in TextWords \X {24, 16} \X SourceSymtabs \X UNION { SourceExtras(Len(t.syms)) : t \in SourceSymtabs } :
                                x \in SourceExtras(Len(st.syms)) } }

(* The spliced functions, as parse_source returns them.                   *)
Function(k, n) ==
    [fn_name |-> "func" \o ToString(k), temp_fn_name |-> "tempfun" \o ToString(k),
     body |-> <<"glabel func" \o ToString(k)>> \o [i \in 1..n |-> "jr $ra"],
     num_instr |-> n]

FunctionLists ==
    { [i \in 1..Len(ks) |-> Function(ks[i], n)] :
        <<ks, n>> \in { <<0>>, <<1>>, <<0, 1>>, <<1, 0>>, <<0, 2>> } \X (1..MaxInstr) }

AsmPrelude == <<".set noreorder">>

\* parse_source, lines 353-358: a line of a body counts as an instruction
\* unless it starts with "glabel " or with ".", or is empty
is_instruction(line) ==
    /\ line # ""
    /\ line \notin { "glabel func" \o ToString(k) : k \in 0..2 }
    /\ line \notin { ".set noreorder", ".section .text, \"ax\"" }

RECURSIVE instr_count(_)
\* the instr_count that parse_source reaches over the lines given
instr_count(lines) ==
    IF lines = <<>> THEN 0
    ELSE (IF is_instruction(Head(lines)) THEN 1 ELSE 0) + instr_count(Tail(lines))

(* ---------------------------------------------------------------- *)
(* fixup_objfile                                                    *)
(* ---------------------------------------------------------------- *)
VARIABLES
    pc,           \* the step fixup_objfile is about to take
    err,          \* the exception in flight ("none": none)
    functions,    \* the argument: the spliced functions
    disk,         \* the file objfile_name
    o_file,       \* the temporary .o file
    s_file,       \* the temporary .s file
    objfile,      \* ElfFile of the target
    asm_objfile,  \* ElfFile of the assembled object
    prev_loc, to_copy, asm, temp_names, fn_names,
    new_entries,  \* the merged symbol list
    rt            \* the parse-write round trip (SpecRT)

vars == <<pc, err, functions, disk, o_file, s_file, objfile, asm_objfile,
          prev_loc, to_copy, asm, temp_names, fn_names, new_entries, rt>>

Absent == [kind |-> "absent"]
Empty == [kind |-> "empty"]
ElfBytes(elf) == [kind |-> "elf", elf |-> elf]
NoElf == [sections |-> <<>>]

Init ==
    /\ pc = "locate"
    /\ err = "none"
    /\ functions \in FunctionLists
    /\ \E elf \in TargetObjects :
          \* "with open(objfile_name, 'rb') as f: objfile = ElfFile(f.read())"
          /\ disk = ElfBytes(elf)
          /\ objfile = elf
    /\ o_file = Absent
    /\ s_file = Absent
    /\ asm_objfile = NoElf
    /\ prev_loc = 0
    /\ to_copy = <<>>
    /\ asm = <<>>
    /\ temp_names = {}
    /\ fn_names = {}
    /\ new_entries = <<>>
    /\ rt = [pc |-> "off"]

\* Nops, were the padding counted from the start of .text
NopsFromStart(loc, prev) == [i \in 1..loc |-> "nop"]

\* "for i in range(loc - prev_loc): asm.append('nop')"
Nops(loc, prev) == [i \in 1..(loc - prev) |-> "nop"]

RECURSIVE LocateLoop(_, _, _, _)
\* the loop over functions from the i-th on; st holds the locals
LocateLoop(symtab, fns, i, st) ==
    IF i > Len(fns) THEN st
    ELSE LET f == fns[i]
             found == find_symbol(symtab, f.temp_fn_name)
         IN  IF found = <<>> THEN [st EXCEPT !.err = "AssertionError: loc is not None"]
             ELSE IF found[2] % 4 # 0 THEN [st EXCEPT !.err = "AssertionError: loc[1] % 4 == 0"]
             ELSE IF found[2] \div 4 < st.prev_loc THEN [st EXCEPT !.err = "AssertionError: loc >= prev_loc"]
             ELSE LET loc == found[2] \div 4
                  IN  LocateLoop(symtab, fns, i + 1,
                        [prev_loc |-> loc + f.num_instr,
                         to_copy |-> Append(st.to_copy, <<loc, f.num_instr>>),
                         asm |-> st.asm \o Nops(loc, st.prev_loc) \o f.body,
                         temp_names |-> st.temp_names \cup {f.temp_fn_name},
                         fn_names |-> st.fn_names \cup {f.fn_name},
                         err |-> "none"])

\* lines 384-406: find the placeholders, build the assembly and the copy plan
Locate ==
    /\ pc = "locate"
    /\ LET st == LocateLoop(Sec(objfile, objfile.symtab), functions, 1,
                    [prev_loc |-> 0, to_copy |-> <<>>, asm |-> <<>>,
                     temp_names |-> {}, fn_names |-> {}, err |-> "none"])
       IN  /\ prev_loc' = st.prev_loc
           /\ to_copy' = st.to_copy
           /\ asm' = st.asm
           /\ temp_names' = st.temp_names
           /\ fn_names' = st.fn_names
           /\ err' = st.err
           /\ pc' = IF st.err = "none" THEN "temps" ELSE "done"
    /\ UNCHANGED <<functions, disk, o_file, s_file, objfile, asm_objfile, new_entries, rt>>

\* lines 408-412: the two NamedTemporaryFile(delete=False); either creation
\* may raise OSError, and the try block has not been entered yet
CreateTemps ==
    /\ pc = "temps"
    /\ \/ /\ o_file' = Absent /\ s_file' = Absent
          /\ err' = "OSError" /\ pc' = "done"
       \/ /\ o_file' = Empty /\ s_file' = Absent
          /\ err' = "OSError" /\ pc' = "done"
       \/ /\ o_file' = Empty /\ s_file' = Empty
          /\ err' = "none" /\ pc' = "assemble"
    /\ UNCHANGED <<functions, disk, objfile, asm_objfile, prev_loc, to_copy, asm,
                   temp_names, fn_names, new_entries, rt>>

\* what s_file holds after lines 414-419
AsmSource == [kind |-> "asm", lines |-> AsmPrelude \o <<".section .text, \"ax\"", "">> \o asm]

\* lines 413-424: write and close the .s file, run the assembler, parse its
\* output; the assembler fails, or leaves a file that ElfFile rejects, or
\* an object
Assemble ==
    /\ pc = "assemble"
    /\ s_file' = AsmSource
    /\ \/ /\ err' = "Exception: failed to assemble" /\ pc' = "finally"
          /\ UNCHANGED <<o_file, asm_objfile>>
       \/ /\ o_file' = [kind |-> "garbage"]
          /\ err' = "AssertionError: ElfFile" /\ pc' = "finally"
          /\ UNCHANGED asm_objfile
       \/ \E elf \in SourceObjects :
             /\ o_file' = ElfBytes(elf)
             /\ asm_objfile' = elf
             /\ err' = "none" /\ pc' = "reginfo"
    /\ UNCHANGED <<functions, disk, objfile, prev_loc, to_copy, asm,
                   temp_names, fn_names, new_entries, rt>>

\* the object with the payload of section index replaced
WithData(elf, index, data) ==
    [elf EXCEPT !.sections[SecPos(elf, index)].data = data]

\* ReginfoUnion, were the bytes beyond the first 20 merged as well
ReginfoUnionAll(data, source_reginfo_data) ==
    [i \in 1..Len(data) |->
        IF i <= Len(source_reginfo_data) THEN BitOr(data[i], source_reginfo_data[i]) ELSE data[i]]

\* "for i in range(20): data[i] |= source_reginfo_data[i]"
ReginfoUnion(data, source_reginfo_data) ==
    [i \in 1..Len(data) |->
        IF i <= ReginfoMergeLen THEN BitOr(data[i], source_reginfo_data[i]) ELSE data[i]]

\* lines 426-432: unify the .reginfo sections; a missing section raises
\* AttributeError, one shorter than 20 bytes IndexError
MergeReginfo ==
    /\ pc = "reginfo"
    /\ LET target_reginfo == find_section(objfile, ".reginfo")
           source_reginfo == find_section(asm_objfile, ".reginfo")
       IN  IF target_reginfo = None \/ source_reginfo = None
           THEN /\ err' = "AttributeError" /\ pc' = "finally" /\ UNCHANGED objfile
           ELSE IF \/ Len(Sec(objfile, target_reginfo).data) < ReginfoMergeLen
                   \/ Len(Sec(asm_objfile, source_reginfo).data) < ReginfoMergeLen
           THEN /\ err' = "IndexError" /\ pc' = "finally" /\ UNCHANGED objfile
           ELSE /\ objfile' = WithData(objfile, target_reginfo,
                                  ReginfoUnion(Sec(objfile, target_reginfo).data,
                                               Sec(asm_objfile, source_reginfo).data))
                /\ err' = "none" /\ pc' = "text"
    /\ UNCHANGED <<functions, disk, o_file, s_file, asm_objfile, prev_loc, to_copy, asm,
                   temp_names, fn_names, new_entries, rt>>

\* "data[pos:pos + count] = source.data[pos:pos + count]" with pos, count in
\* words
CopyOne(data, source_data, pos, count) ==
    SliceAssign(data, pos * 4, pos * 4 + count * 4,
                Slice(source_data, pos * 4, pos * 4 + count * 4))

RECURSIVE CopyAll(_, _, _, _)
\* "for (pos, count) in to_copy" from the i-th entry on
CopyAll(data, source_data, plan, i) ==
    IF i > Len(plan) THEN data
    ELSE CopyAll(CopyOne(data, source_data, plan[i][1], plan[i][2]), source_data, plan, i + 1)

\* lines 434-442: move over the code
CopyText ==
    /\ pc = "text"
    /\ LET source == find_section(asm_objfile, ".text")
           target == find_section(objfile, ".text")
       IN  IF source = None \/ target = None
           THEN /\ err' = "AttributeError" /\ pc' = "finally" /\ UNCHANGED objfile
           ELSE /\ objfile' = WithData(objfile, target,
                                  CopyAll(Sec(objfile, target).data,
                                          Sec(asm_objfile, source).data, to_copy, 1))
                /\ err' = "none" /\ pc' = "symbols"
    /\ UNCHANGED <<functions, disk, o_file, s_file, asm_objfile, prev_loc, to_copy, asm,
                   temp_names, fn_names, new_entries, rt>>

\* KeptBefore, were new_index the old position of the symbol
KeptBeforeUncompacted(entries, names, i) == i - 1

\* lines 449-455: the new_index given to the i-th target symbol, when kept
KeptBefore(entries, names, i) ==
    Cardinality({ j \in 1..(i - 1) : entries[j].name \notin names })

\* lines 451-455: the target symbols, the kept ones carrying their new_index
IndexTarget(entries, names) ==
    [i \in 1..Len(entries) |->
        IF entries[i].name \notin names
        THEN [entries[i] EXCEPT !.new_index = KeptBefore(entries, names, i)]
        ELSE entries[i]]

\* Kept, were no symbol dropped
KeptAll(entries, names) == entries

\* lines 451-455: new_entries after the walk over the target symbols
Kept(entries, names) ==
    LET P == { i \in 1..Len(entries) : entries[i].name \notin names }
    IN  [k \in 1..Cardinality(P) |-> entries[Nth(P, k)]]

\* MoveSymbol, were the type fixed outside the test for SHN_UNDEF
MoveSymbolAnyShndx(s, source_index, target_index, names, strtab_adj, index) ==
    [s EXCEPT !.st_shndx = IF s.st_shndx # SHN_UNDEF THEN target_index ELSE @,
              !.type = IF s.name \in names THEN STT_FUNC ELSE @,
              !.st_name = @ + strtab_adj,
              !.new_index = index]

\* lines 460-468 on one non-local source symbol, index being its new_index
MoveSymbol(s, source_index, target_index, names, strtab_adj, index) ==
    [s EXCEPT !.st_shndx = IF s.st_shndx # SHN_UNDEF THEN target_index ELSE @,
              !.type = IF s.st_shndx # SHN_UNDEF /\ s.name \in names THEN STT_FUNC ELSE @,
              !.st_name = @ + strtab_adj,
              !.new_index = index]

\* lines 458-469: the source symbols after the walk over
\* symbol_entries[num_local_syms:], first being the next free new_index
MoveSymbols(entries, num_local_syms, source_index, target_index, names, strtab_adj, first) ==
    [i \in 1..Len(entries) |->
        IF i > num_local_syms
        THEN MoveSymbol(entries[i], source_index, target_index, names, strtab_adj,
                        first + (i - num_local_syms - 1))
        ELSE entries[i]]

\* lines 444-470: move over the symbols, deleting the placeholders
MergeSymbols ==
    /\ pc = "symbols"
    /\ LET source == find_section(asm_objfile, ".text")
           target == find_section(objfile, ".text")
           tsym == Sec(objfile, objfile.symtab)
           ssym == Sec(asm_objfile, asm_objfile.symtab)
           strtab_adj == DataLen(Sec(objfile, tsym.sh_link))
           strtab == Sec(objfile, tsym.sh_link).data \o Sec(asm_objfile, ssym.sh_link).data
           tentries == IndexTarget(tsym.symbol_entries, temp_names)
           kept == Kept(tentries, temp_names)
           num_local_syms == ssym.sh_info
           sentries == MoveSymbols(ssym.symbol_entries, num_local_syms, source, target,
                                   fn_names, strtab_adj, Len(kept))
           merged == kept \o Slice(sentries, num_local_syms, Len(sentries))
       IN  IF \E i \in (num_local_syms + 1)..Len(ssym.symbol_entries) :
                 /\ ssym.symbol_entries[i].st_shndx # SHN_UNDEF
                 /\ ssym.symbol_entries[i].st_shndx # source
           THEN /\ err' = "AssertionError: Generated assembly .o must only have symbols for .text and UNDEF"
                /\ pc' = "finally"
                /\ UNCHANGED <<objfile, asm_objfile, new_entries>>
           ELSE IF \E i \in 1..Len(merged) : ~SymbolPacks(merged[i])
           THEN /\ err' = "struct.error" /\ pc' = "finally"
                /\ UNCHANGED <<objfile, asm_objfile, new_entries>>
           ELSE /\ new_entries' = merged
                /\ objfile' = [objfile EXCEPT
                      !.sections[SecPos(objfile, tsym.sh_link)].data = strtab,
                      !.sections[SecPos(objfile, objfile.symtab)].symbol_entries = tentries,
                      !.sections[SecPos(objfile, objfile.symtab)].data =
                            [k \in 1..Len(merged) |-> SymbolToBin(merged[k])]]
                /\ asm_objfile' = [asm_objfile EXCEPT
                      !.sections[SecPos(asm_objfile, asm_objfile.symtab)].symbol_entries = sentries]
                /\ err' = "none" /\ pc' = "trelocs"
    /\ UNCHANGED <<functions, disk, o_file, s_file, prev_loc, to_copy, asm,
                   temp_names, fn_names, rt>>

\* line 475 / 483: the relocation pointed at the new_index of its symbol
Remapped(rel, symbol_entries) ==
    [rel EXCEPT !.sym_index = symbol_entries[rel.sym_index + 1].new_index]

\* lines 474-476 / 481-484: a relocation table with every relocation
\* remapped and (to_bin) its r_info recomputed
RemapRelocations(relocations, symbol_entries) ==
    [i \in 1..Len(relocations) |->
        LET rel == Remapped(relocations[i], symbol_entries)
        IN  [rel EXCEPT !.r_info = RelInfo(rel)]]

\* b''.join(rel.to_bin() for rel in relocations)
RelocationsToBin(relocations) ==
    [i \in 1..Len(relocations) |-> RelToBin(relocations[i])]

\* the exception the remapping of a table raises, "none" if none: the
\* first relocation at fault decides
RECURSIVE RemapError(_, _, _, _)
RemapError(relocations, symbol_entries, min_index, i) ==
    IF i > Len(relocations) THEN "none"
    ELSE IF relocations[i].sym_index < min_index
    THEN "AssertionError: Must only have relocations pointing to global symbols"
    ELSE IF relocations[i].sym_index >= Len(symbol_entries) THEN "IndexError"
    ELSE IF symbol_entries[relocations[i].sym_index + 1].new_index = Unset
    THEN "AttributeError: new_index"
    ELSE IF ~RelPacks(Remapped(relocations[i], symbol_entries)) THEN "struct.error"
    ELSE RemapError(relocations, symbol_entries, min_index, i + 1)

RECURSIVE RemapTarget(_, _, _)
\* "for reltab in target.relocated_by" from the i-th table on
RemapTarget(st, tabs, i) ==
    IF i > Len(tabs) \/ st.err # "none" THEN st
    ELSE LET reltab == Sec(st.elf, tabs[i])
             entries == Sec(st.elf, st.elf.symtab).symbol_entries
             e == RemapError(reltab.relocations, entries, 0, 1)
             rels == RemapRelocations(reltab.relocations, entries)
         IN  IF e # "none" THEN [st EXCEPT !.err = e]
             ELSE RemapTarget(
                    [st EXCEPT !.elf.sections[SecPos(st.elf, tabs[i])].relocations = rels,
                               !.elf.sections[SecPos(st.elf, tabs[i])].data = RelocationsToBin(rels)],
                    tabs, i + 1)

\* lines 472-476: remap the relocations of the target .text
RemapTargetRelocs ==
    /\ pc = "trelocs"
    /\ LET target == find_section(objfile, ".text")
           st == RemapTarget([elf |-> objfile, err |-> "none"], relocated_by(objfile, target), 1)
       IN  /\ err' = st.err
           /\ pc' = IF st.err = "none" THEN "srelocs" ELSE "finally"
           /\ objfile' = IF st.err = "none" THEN st.elf ELSE objfile
    /\ UNCHANGED <<functions, disk, o_file, s_file, asm_objfile, prev_loc, to_copy, asm,
                   temp_names, fn_names, new_entries, rt>>

\* Section.from_parts: sh_addr = sh_offset = 0, sh_size = len(data)
from_parts(sh_name, sh_type, sh_flags, sh_link, sh_info, sh_addralign, sh_entsize, data, index) ==
    header_to_bin(Section(index, "", sh_name, sh_type, sh_flags, sh_link, sh_info,
                          sh_addralign, sh_entsize, data, <<>>))

\* ElfFile.add_section: the name goes to the section-name table, the
\* section to the end of the section list
add_section(elf, name, sh_type, sh_flags, sh_link, sh_info, sh_addralign, sh_entsize, data) ==
    LET shstr == SecPos(elf, elf.elf_header.e_shstrndx)
        added == add_str(elf.sections[shstr].data, name)
        s == from_parts(added.ret, sh_type, sh_flags, sh_link, sh_info,
                        sh_addralign, sh_entsize, data, NumSections(elf))
    IN  [elf EXCEPT !.sections =
            Append([@ EXCEPT ![shstr].data = added.data], [s EXCEPT !.name = name])]

\* NoSection, were a section found taken for none
NoSectionEver(found) == TRUE

\* "if not target_reltab": a Section object is truthy, None is not
NoSection(found) == found = None

\* lines 485-498 for one source table: the target section that receives
\* new_data is created when none was found or created before
Receive(st, name, sh_type, sh_entsize, found, new_data) ==
    LET target == find_section(st.elf, ".text")
        created == NoSection(found)
        elf == IF created
               THEN add_section(st.elf, name, sh_type, 0, st.elf.symtab, target, 4, sh_entsize, <<>>)
               ELSE st.elf
        index == IF created THEN NumSections(st.elf) ELSE found
    IN  [elf |-> WithData(elf, index, Sec(elf, index).data \o new_data), index |-> index]

RECURSIVE Propagate(_, _, _)
\* "for reltab in source.relocated_by" from the i-th table on; st holds
\* both objects, target_reltab, target_reltaba and the exception raised
Propagate(st, tabs, i) ==
    IF i > Len(tabs) \/ st.err # "none" THEN st
    ELSE LET reltab == Sec(st.asm, tabs[i])
             ssym == Sec(st.asm, st.asm.symtab)
             e == RemapError(reltab.relocations, ssym.symbol_entries, ssym.sh_info, 1)
             rels == RemapRelocations(reltab.relocations, ssym.symbol_entries)
             new_data == RelocationsToBin(rels)
             asm2 == [st.asm EXCEPT !.sections[SecPos(st.asm, tabs[i])].relocations = rels]
         IN  IF e # "none" THEN [st EXCEPT !.err = e]
             ELSE IF reltab.sh_type = SHT_REL
             THEN LET r == Receive(st, ".rel.text", SHT_REL, RelSize, st.target_reltab, new_data)
                  IN  Propagate([st EXCEPT !.elf = r.elf, !.asm = asm2, !.target_reltab = r.index],
                                tabs, i + 1)
             ELSE LET r == Receive(st, ".rela.text", SHT_RELA, RelaSize, st.target_reltaba, new_data)
                  IN  Propagate([st EXCEPT !.elf = r.elf, !.asm = asm2, !.target_reltaba = r.index],
                                tabs, i + 1)

\* lines 478-498: move over the relocations of the source .text
PropagateRelocs ==
    /\ pc = "srelocs"
    /\ LET source == find_section(asm_objfile, ".text")
           st == Propagate([elf |-> objfile, asm |-> asm_objfile, err |-> "none",
                            target_reltab |-> find_section(objfile, ".rel.text"),
                            target_reltaba |-> find_section(objfile, ".rela.text")],
                           relocated_by(asm_objfile, source), 1)
       IN  /\ err' = st.err
           /\ pc' = IF st.err = "none" THEN "write" ELSE "finally"
           /\ objfile' = IF st.err = "none" THEN st.elf ELSE objfile
           /\ asm_objfile' = IF st.err = "none" THEN st.asm ELSE asm_objfile
    /\ UNCHANGED <<functions, disk, o_file, s_file, prev_loc, to_copy, asm,
                   temp_names, fn_names, new_entries, rt>>

\* line 500, ElfFile.write: open(filename, 'wb') empties the file; packing
\* the header raises struct.error when e_shnum does not fit 'H'; otherwise
\* the header, the payloads and the section headers are written
WriteOut ==
    /\ pc = "write"
    /\ \/ /\ ~HeaderPacks(objfile)
          /\ disk' = Empty
          /\ err' = "struct.error" /\ pc' = "finally"
          /\ UNCHANGED objfile
       \/ /\ HeaderPacks(objfile)
          /\ objfile' = Written(objfile)
          /\ disk' = ElfBytes(Written(objfile))
          /\ err' = "none" /\ pc' = "finally"
    /\ UNCHANGED <<functions, o_file, s_file, asm_objfile, prev_loc, to_copy, asm,
                   temp_names, fn_names, new_entries, rt>>

\* lines 501-507: the finally block removes both temporary files; the
\* exception in flight, if any, goes on to the caller
Finally ==
    /\ pc = "finally"
    /\ s_file' = Absent
    /\ o_file' = Absent
    /\ pc' = "done"
    /\ UNCHANGED <<err, functions, disk, objfile, asm_objfile, prev_loc, to_copy, asm,
                   temp_names, fn_names, new_entries, rt>>

Next ==
    \/ Locate \/ CreateTemps \/ Assemble \/ MergeReginfo \/ CopyText
    \/ MergeSymbols \/ RemapTargetRelocs \/ PropagateRelocs \/ WriteOut \/ Finally

Spec == Init /\ [][Next]_vars

(* ---------------------------------------------------------------- *)
(* Properties of fixup_objfile                                      *)
(* ---------------------------------------------------------------- *)
\* the call has returned normally
Succeeded == pc = "done" /\ err = "none"

\* the target as it was read, while the file still holds it
Before == disk.elf

\* the assembled object as it was read, while the .o file still holds it
Assembled == o_file.elf

SymtabOf(elf) == Sec(elf, elf.symtab)
StrtabOf(elf) == Sec(elf, SymtabOf(elf).sh_link)
TextOf(elf) == Sec(elf, find_section(elf, ".text"))

\* the name that the k-th packed symbol of an object resolves to
PackedName(elf, k) == lookup_str(StrtabOf(elf).data, SymtabOf(elf).data[k].st_name)

\* the relocation sections of an object
RelSections(elf) == { i \in 1..Len(elf.sections) : is_rel(elf.sections[i]) }

\* C1: after a successful fixup_objfile every relocation of every
\* relocation section of the written target (those of .text and those of
\* any other section) has 0 <= sym_index < the number of merged symbols.
C1_NoDanglingSymIndex ==
    Succeeded =>
        \A i \in RelSections(disk.elf) : \A k \in 1..Len(disk.elf.sections[i].data) :
            LET sym_index == disk.elf.sections[i].data[k].r_info \div 256
            IN  0 <= sym_index /\ sym_index < Len(SymtabOf(disk.elf).data)

\* C2: once the code-copy step is done, the target .text payload is as long
\* as it was before the copy (the file still holds the target as read).
C2_TextLengthPreserved ==
    pc = "symbols" => Len(TextOf(objfile).data) = Len(TextOf(Before).data)

\* C3: a step of fixup_objfile that fails leaves the target file holding
\* the bytes it held before: the file changes only in a step that succeeds.
C3_FailureAtomic == [][err' # "none" => disk' = disk]_vars

\* C9: when fixup_objfile has returned or raised, neither temporary file
\* exists.
C9_NoTempFileLeft == pc = "done" => o_file = Absent /\ s_file = Absent

\* the positions of the relocation sections of an object that relocate .text
TextRelSections(elf) ==
    { i \in RelSections(elf) : elf.sections[i].sh_info = TextOf(elf).index }

\* the symbol a parsed relocation of an object refers to
Referent(elf, rel) == SymtabOf(elf).symbol_entries[rel.sym_index + 1]

\* a packed relocation of the target refers, in the merged table, to the
\* symbol sym (the same object, under the same name) with type rel_type
RefersTo(packed, sym, rel_type) ==
    LET new_index == packed.r_info \div 256
    IN  /\ new_index < Len(new_entries)
        /\ new_index < Len(SymtabOf(objfile).data)
        /\ new_entries[new_index + 1].uid = sym.uid
        /\ PackedName(objfile, new_index + 1) = [found |-> TRUE, str |-> sym.name]
        /\ rel_type < 256
        /\ packed.r_info = new_index * 256 + rel_type

\* a packed relocation carries the offset and the addend of a parsed one
SamePlace(packed, rel) ==
    /\ packed.r_offset = rel.r_offset
    /\ rel.sh_type = SHT_RELA => packed.r_addend = rel.r_addend

\* the relocations of the source .text of one type, in section order
SourceRelocs(sh_type) ==
    LET tabs == relocated_by(Assembled, TextOf(Assembled).index)
    IN  Flatten([k \in 1..Len(tabs) |->
                    IF Sec(Assembled, tabs[k]).sh_type = sh_type
                    THEN Sec(Assembled, tabs[k]).relocations ELSE <<>>])

\* what the target section of that name holds beyond what it held as read
Received(name) ==
    LET now == find_section(objfile, name)
        was == find_section(Before, name)
    IN  IF now = None THEN <<>>
        ELSE Slice(Sec(objfile, now).data,
                   IF was = None THEN 0 ELSE Len(Sec(Before, was).data),
                   Len(Sec(objfile, now).data))

\* every relocation of the target .text, remapped, refers to the symbol it
\* referred to before
TargetRelocsKeepReferent ==
    \A i \in TextRelSections(Before) :
        LET was == Before.sections[i].relocations
            now == objfile.sections[i].data
        IN  /\ Len(now) >= Len(was)
            /\ \A j \in 1..Len(was) :
                  /\ RefersTo(now[j], Referent(Before, was[j]), was[j].rel_type)
                  /\ SamePlace(now[j], was[j])

\* every relocation of the source .text, propagated into the target, refers
\* to the symbol it referred to in the assembled object
SourceRelocsKeepReferent ==
    \A x \in { <<SHT_REL, ".rel.text">>, <<SHT_RELA, ".rela.text">> } :
        LET was == SourceRelocs(x[1])
            now == Received(x[2])
        IN  /\ Len(now) = Len(was)
            /\ \A j \in 1..Len(was) :
                  /\ RefersTo(now[j], Referent(Assembled, was[j]), was[j].rel_type)
                  /\ SamePlace(now[j], was[j])

\* C4: a relocation remapped in the target, or propagated from the source,
\* refers after the remap to the same symbol (same object, same name) as
\* before it, and its r_info is (new_index << 8) | rel_type.
C4_RemapKeepsReferent ==
    /\ pc \in {"srelocs", "write"} => TargetRelocsKeepReferent
    /\ pc = "write" => SourceRelocsKeepReferent

\* C4 witness: a target relocation whose index moved and a propagated source
\* relocation, the splice about to be written
C4_Witness ==
    /\ pc = "write"
    /\ \E i \in TextRelSections(Before) : \E j \in 1..Len(Before.sections[i].relocations) :
          objfile.sections[i].data[j].r_info # Before.sections[i].relocations[j].r_info
    /\ SourceRelocs(SHT_REL) # <<>>

\* the symbols of the target as read
TargetSymbols == SymtabOf(Before).symbol_entries

\* the positions in the merged table of a symbol object
MergedAt(sym) == { k \in 1..Len(new_entries) : new_entries[k].uid = sym.uid }

\* the k-th entry of the merged table is one of the target's own symbols
FromTarget(k) == \E i \in 1..Len(TargetSymbols) : TargetSymbols[i].uid = new_entries[k].uid

\* the packed merged table is the merged list
MergedPacked == Len(SymtabOf(objfile).data) = Len(new_entries)

\* every target symbol that is not a placeholder is in the merged table
\* once, under its name, and these symbols keep their relative order
OthersKeptInOrder ==
    /\ \A i \in 1..Len(TargetSymbols) :
          TargetSymbols[i].name \notin temp_names =>
              \E k \in 1..Len(new_entries) :
                  /\ MergedAt(TargetSymbols[i]) = {k}
                  /\ PackedName(objfile, k) = [found |-> TRUE, str |-> TargetSymbols[i].name]
    /\ \A i, j \in 1..Len(TargetSymbols) :
          (i < j /\ TargetSymbols[i].name \notin temp_names
                 /\ TargetSymbols[j].name \notin temp_names) =>
              \A k \in MergedAt(TargetSymbols[i]) : \A l \in MergedAt(TargetSymbols[j]) : k < l

\* C5 as stated: after the symbol merge no symbol of the merged table is
\* named as a placeholder, and every other target symbol is retained in
\* its original relative order.
C5_NoPlaceholderLeft ==
    pc = "trelocs" =>
        /\ MergedPacked
        /\ \A k \in 1..Len(new_entries) : PackedName(objfile, k).str \notin temp_names
        /\ OthersKeptInOrder

\* C5: after the symbol merge no symbol of the merged table that comes
\* from the target's own symbol table is named as a placeholder (the
\* non-local symbols of the assembled object are appended whatever their
\* names), and every other target symbol is retained in its original
\* relative order.
C5_NoTargetPlaceholderLeft ==
    pc = "trelocs" =>
        /\ MergedPacked
        /\ \A k \in 1..Len(new_entries) :
              FromTarget(k) => PackedName(objfile, k).str \notin temp_names
        /\ OthersKeptInOrder

\* C5 witness: a placeholder was dropped ahead of a symbol that was kept
C5_Witness ==
    /\ pc = "trelocs"
    /\ \E i, j \in 1..Len(TargetSymbols) :
          /\ i < j
          /\ TargetSymbols[i].name \in temp_names
          /\ TargetSymbols[j].name \notin temp_names
          /\ MergedAt(TargetSymbols[i]) = {}
          /\ MergedAt(TargetSymbols[j]) # {}

\* bit k of a byte
Bit(x, k) == (x \div (2 ^ k)) % 2

\* r is the bitwise OR of the bytes a and b
IsUnion(r, a, b) ==
    /\ r \in 0..255
    /\ \A k \in 0..7 : Bit(r, k) = 1 <=> (Bit(a, k) = 1 \/ Bit(b, k) = 1)

ReginfoOf(elf) == Sec(elf, find_section(elf, ".reginfo")).data

\* C6: after the reginfo merge each of the first 20 bytes of the target
\* .reginfo is the OR of the byte it held and the source byte at that
\* position, every later byte of it is unchanged, and the source .reginfo
\* is unchanged.
C6_ReginfoUnion ==
    pc = "text" =>
        /\ Len(ReginfoOf(objfile)) = Len(ReginfoOf(Before))
        /\ \A i \in 1..Len(ReginfoOf(objfile)) :
              IF i <= 20
              THEN IsUnion(ReginfoOf(objfile)[i], ReginfoOf(Before)[i], ReginfoOf(Assembled)[i])
              ELSE ReginfoOf(objfile)[i] = ReginfoOf(Before)[i]
        /\ ReginfoOf(asm_objfile) = ReginfoOf(Assembled)

\* C6 witness: a merged byte that is neither of the two bytes it unites,
\* in a .reginfo with bytes beyond the first 20
C6_Witness ==
    /\ pc = "text"
    /\ Len(ReginfoOf(objfile)) > 20
    /\ \E i \in 1..20 : /\ ReginfoOf(objfile)[i] # ReginfoOf(Before)[i]
                        /\ ReginfoOf(objfile)[i] # ReginfoOf(Assembled)[i]

\* the positions of the sections of that name
Named(elf, name) == { i \in 1..Len(elf.sections) : elf.sections[i].name = name }

\* the source .text has a relocation section of that type
SourceHas(sh_type) ==
    \E i \in TextRelSections(Assembled) : Assembled.sections[i].sh_type = sh_type

\* the target had no section of that name and the source relocations of
\* that type call for one
Wanted(name, sh_type) == Named(Before, name) = {} /\ SourceHas(sh_type)

\* one section of that name is created when wanted, none otherwise
CreatedOnce(name, sh_type, sh_entsize) ==
    IF Wanted(name, sh_type)
    THEN \E i \in Named(objfile, name) :
            /\ Named(objfile, name) = {i}
            /\ i > Len(Before.sections)
            /\ objfile.sections[i].sh_type = sh_type
            /\ objfile.sections[i].sh_entsize = sh_entsize
            /\ objfile.sections[i].sh_link = Before.symtab
            /\ objfile.sections[i].sh_info = TextOf(Before).index
            /\ objfile.sections[i].sh_addralign = 4
    ELSE Named(objfile, name) = Named(Before, name)

\* C7: while the source relocations are propagated, exactly one .rel.text
\* (one .rela.text) is created when the target has none and the source has
\* relocation sections of that type, however many of them; none is created
\* when the target has one already.
C7_OneSectionCreated ==
    pc = "write" =>
        /\ CreatedOnce(".rel.text", SHT_REL, 8)
        /\ CreatedOnce(".rela.text", SHT_RELA, 12)
        /\ Len(objfile.sections) = Len(Before.sections)
              + (IF Wanted(".rel.text", SHT_REL) THEN 1 ELSE 0)
              + (IF Wanted(".rela.text", SHT_RELA) THEN 1 ELSE 0)

\* C7 witness: two source sections of one type were propagated into a
\* target that had no section for them
C7_Witness ==
    /\ pc = "write"
    /\ \E x \in { <<SHT_REL, ".rel.text">>, <<SHT_RELA, ".rela.text">> } :
          /\ Named(Before, x[2]) = {}
          /\ Cardinality({ i \in TextRelSections(Assembled) :
                              Assembled.sections[i].sh_type = x[1] }) >= 2

\* the non-local symbols of the assembled object as read
SourceSymbols == SymtabOf(Assembled).symbol_entries
NonLocal == (SymtabOf(Assembled).sh_info + 1)..Len(SourceSymbols)

\* type and binding of the merged, packed entry of a symbol object
PackedType(sym) == SymtabOf(objfile).data[CHOOSE k \in MergedAt(sym) : TRUE].st_info % 16
PackedBind(sym) == SymtabOf(objfile).data[CHOOSE k \in MergedAt(sym) : TRUE].st_info \div 16

\* C8 as stated: after the symbol merge every non-local source symbol named
\* in fn_names has type STT_FUNC, whether defined in .text or SHN_UNDEF;
\* every other one keeps its type; no binding changes.
C8_NamedBecomeFunc ==
    pc = "trelocs" =>
        \A i \in NonLocal :
            /\ MergedAt(SourceSymbols[i]) # {}
            /\ PackedType(SourceSymbols[i]) =
                  IF SourceSymbols[i].name \in fn_names THEN STT_FUNC ELSE SourceSymbols[i].type
            /\ PackedBind(SourceSymbols[i]) = SourceSymbols[i].bind

\* C8: after the symbol merge every non-local source symbol that is named
\* in fn_names and defined (st_shndx not SHN_UNDEF) has type STT_FUNC;
\* every other one, the SHN_UNDEF ones named in fn_names included, keeps
\* its type; no binding changes.
C8_DefinedNamedBecomeFunc ==
    pc = "trelocs" =>
        \A i \in NonLocal :
            /\ MergedAt(SourceSymbols[i]) # {}
            /\ PackedType(SourceSymbols[i]) =
                  IF SourceSymbols[i].name \in fn_names /\ SourceSymbols[i].st_shndx # SHN_UNDEF
                  THEN STT_FUNC ELSE SourceSymbols[i].type
            /\ PackedBind(SourceSymbols[i]) = SourceSymbols[i].bind

\* C8 witness: a defined symbol named in fn_names was retyped, next to an
\* undefined one named in fn_names
C8_Witness ==
    /\ pc = "trelocs"
    /\ \E i, j \in NonLocal :
          /\ SourceSymbols[i].name \in fn_names
          /\ SourceSymbols[i].st_shndx # SHN_UNDEF
          /\ SourceSymbols[i].type # STT_FUNC
          /\ PackedType(SourceSymbols[i]) = STT_FUNC
          /\ SourceSymbols[j].name \in fn_names
          /\ SourceSymbols[j].st_shndx = SHN_UNDEF

(* ---------------------------------------------------------------- *)
(* ElfFile on bytes: ElfFile(data) and ElfFile.write                *)
(* ---------------------------------------------------------------- *)
EI_NIDENT == 16
EI_CLASS == 4
EI_DATA == 5

\* b'\x7fELF'
Magic == <<127, 69, 76, 70>>

\* the field sizes of the struct formats '>HHIIIIIHHHHHH', '>IIIIIIIIII',
\* '>IIIBBH', '>II' and '>III'
EhdrFormat == <<2, 2, 4, 4, 4, 4, 4, 2, 2, 2, 2, 2, 2>>
ShdrFormat == <<4, 4, 4, 4, 4, 4, 4, 4, 4, 4>>
SymFormat == <<4, 4, 4, 1, 1, 2>>
RelFormat == <<4, 4>>
RelaFormat == <<4, 4, 4>>

\* b'\0' * n
Zeros(n) == [i \in 1..n |-> 0]

RECURSIVE Sum(_)
Sum(s) == IF s = <<>> THEN 0 ELSE Head(s) + Sum(Tail(s))

RECURSIVE BigEndian(_)
\* the unsigned integer that a byte string holds, big end first
BigEndian(b) ==
    IF b = <<>> THEN 0 ELSE BigEndian(SubSeq(b, 1, Len(b) - 1)) * 256 + b[Len(b)]

\* struct.unpack('>...', data): ok = FALSE stands for struct.error (the
\* length of data is not that of the format)
unpack(sizes, data) ==
    [ok |-> Len(data) = Sum(sizes),
     vals |-> [k \in 1..Len(sizes) |->
                  BigEndian(Slice(data, Sum(SubSeq(sizes, 1, k - 1)), Sum(SubSeq(sizes, 1, k))))]]

\* one unsigned field of n bytes, big end first
PackField(v, n) == [i \in 1..n |-> (v \div (256 ^ (n - i))) % 256]

\* struct.pack('>...', *vals)
pack(sizes, vals) == Flatten([k \in 1..Len(sizes) |-> PackField(vals[k], sizes[k])])

\* ElfHeader.__init__
ElfHeader(data) ==
    LET u == unpack(EhdrFormat, Slice(data, EI_NIDENT, Len(data)))
        v == u.vals
        e_ident == Slice(data, 0, EI_NIDENT)
    IN  IF ~u.ok THEN [err |-> "struct.error"]
        ELSE IF \/ e_ident[EI_CLASS + 1] # 1
                \/ e_ident[EI_DATA + 1] # 2
                \/ v[1] # 1
                \/ v[2] # 8
                \/ v[5] # 0
                \/ v[6] = 0
                \/ v[13] = SHN_UNDEF
        THEN [err |-> "AssertionError"]
        ELSE [err |-> "none", e_ident |-> e_ident, e_type |-> v[1], e_machine |-> v[2],
              e_version |-> v[3], e_entry |-> v[4], e_phoff |-> v[5], e_shoff |-> v[6],
              e_flags |-> v[7], e_ehsize |-> v[8], e_phentsize |-> v[9], e_phnum |-> v[10],
              e_shentsize |-> v[11], e_shnum |-> v[12], e_shstrndx |-> v[13]]

\* ElfHeader.to_bin
ElfHeaderToBin(h) ==
    h.e_ident \o pack(EhdrFormat, <<h.e_type, h.e_machine, h.e_version, h.e_entry, h.e_phoff,
                                    h.e_shoff, h.e_flags, h.e_ehsize, h.e_phentsize, h.e_phnum,
                                    h.e_shentsize, h.e_shnum, h.e_shstrndx>>)

\* Section.__init__ on a packed header and the bytes of the file
SectionInit(header, data, index) ==
    LET u == unpack(ShdrFormat, header)
        v == u.vals
    IN  IF ~u.ok THEN [err |-> "struct.error"]
        ELSE IF BitAnd(v[3], SHF_LINK_ORDER) # 0 THEN [err |-> "AssertionError"]
        ELSE IF v[10] # 0 /\ v[6] % v[10] # 0 THEN [err |-> "AssertionError"]
        ELSE [err |-> "none", sh_name |-> v[1], sh_type |-> v[2], sh_flags |-> v[3],
              sh_addr |-> v[4], sh_offset |-> v[5], sh_size |-> v[6], sh_link |-> v[7],
              sh_info |-> v[8], sh_addralign |-> v[9], sh_entsize |-> v[10],
              data |-> IF v[2] = SHT_NOBITS THEN <<>> ELSE Slice(data, v[5], v[5] + v[6]),
              index |-> index, name |-> <<>>, symbol_entries |-> <<>>, relocations |-> <<>>]

\* Section.lookup_str on the bytes of a string table
lookup_str_bytes(s, index) ==
    LET found == { k \in index..(Len(s.data) - 1) : s.data[k + 1] = 0 }
    IN  IF s.sh_type # SHT_STRTAB \/ found = {} THEN [err |-> "AssertionError"]
        ELSE [err |-> "none",
              str |-> Slice(s.data, index, CHOOSE k \in found : \A j \in found : k <= j)]

\* Symbol.__init__ on a packed symbol
SymbolInit(data, strtab) ==
    LET u == unpack(SymFormat, data)
        v == u.vals
        name == lookup_str_bytes(strtab, v[1])
    IN  IF ~u.ok THEN [err |-> "struct.error"]
        ELSE IF v[6] = SHN_XINDEX THEN [err |-> "AssertionError"]
        ELSE IF name.err # "none" THEN [err |-> name.err]
        ELSE [err |-> "none", st_name |-> v[1], st_value |-> v[2], st_size |-> v[3],
              st_other |-> v[5], st_shndx |-> v[6], bind |-> v[4] \div 16, type |-> v[4] % 16,
              name |-> name.str]

\* Relocation.__init__ on a packed relocation
RelocationInit(data, sh_type) ==
    LET u == unpack(IF sh_type = SHT_REL THEN RelFormat ELSE RelaFormat, data)
        v == u.vals
    IN  IF ~u.ok THEN [err |-> "struct.error"]
        ELSE [err |-> "none",
              rel |-> Relocation([r_offset |-> v[1], r_info |-> v[2],
                                  r_addend |-> IF sh_type = SHT_REL THEN 0 ELSE v[3]], sh_type)]

\* the exception of the first entry that raised one, "none" if none did
FirstErr(entries) ==
    LET bad == { i \in 1..Len(entries) : entries[i].err # "none" }
    IN  IF bad = {} THEN "none" ELSE entries[CHOOSE i \in bad : \A j \in bad : i <= j].err

\* Section.init_symbols
init_symbols(s, sections) ==
    LET entries == [i \in 1..((s.sh_size + SymSize - 1) \div SymSize) |->
                       SymbolInit(Slice(s.data, (i - 1) * SymSize, i * SymSize),
                                  sections[s.sh_link + 1])]
    IN  IF s.sh_entsize # SymSize THEN [err |-> "AssertionError"]
        ELSE IF s.sh_link >= Len(sections) THEN [err |-> "IndexError"]
        ELSE IF FirstErr(entries) # "none" THEN [err |-> FirstErr(entries)]
        ELSE [s EXCEPT !.symbol_entries = entries]

\* Section.init_relocs
init_relocs(s) ==
    LET entries == [i \in 1..((s.sh_size + s.sh_entsize - 1) \div s.sh_entsize) |->
                       RelocationInit(Slice(s.data, (i - 1) * s.sh_entsize, i * s.sh_entsize),
                                      s.sh_type)]
    IN  IF s.sh_entsize = 0 THEN [err |-> "ValueError"]
        ELSE IF FirstErr(entries) # "none" THEN [err |-> FirstErr(entries)]
        ELSE [s EXCEPT !.relocations = [i \in 1..Len(entries) |-> entries[i].rel]]

\* Section.late_init
late_init(s, sections) ==
    IF s.sh_type = SHT_SYMTAB THEN init_symbols(s, sections)
    ELSE IF is_rel(s)
    THEN IF s.sh_info >= Len(sections) THEN [err |-> "IndexError"] ELSE init_relocs(s)
    ELSE s

\* the loop at the end of ElfFile.__init__ on one section
NameAndLateInit(s, shstr, sections) ==
    LET name == lookup_str_bytes(shstr, s.sh_name)
    IN  IF name.err # "none" THEN [err |-> name.err]
        ELSE late_init([s EXCEPT !.name = name.str], sections)

\* ElfFile.__init__, lines 246-249: the magic and the header
ReadHeader(data) ==
    IF Slice(data, 0, 4) # Magic THEN [err |-> "AssertionError"]
    ELSE ElfHeader(Slice(data, 0, EhdrSize))

\* the i-th packed section header of a file with header h
HeaderAt(data, h, i) ==
    Slice(data, h.e_shoff + i * h.e_shentsize, h.e_shoff + i * h.e_shentsize + h.e_shentsize)

\* ElfFile.__init__, lines 251-258: the sections as Section.__init__ leaves
\* them, the first of them holding the count when e_shnum is 0
ReadSections(data, h) ==
    LET null_section == SectionInit(HeaderAt(data, h, 0), data, 0)
    IN  IF null_section.err # "none" THEN <<null_section>>
        ELSE <<null_section>>
               \o [i \in 1..((IF h.e_shnum # 0 THEN h.e_shnum ELSE null_section.sh_size) - 1) |->
                      SectionInit(HeaderAt(data, h, i), data, i)]

\* ElfFile.__init__, lines 260-271, on the header and the sections read:
\* the one symbol table, the names, late_init
ElfFileInit(h, raw) ==
    LET symtabs == { i \in 1..Len(raw) : raw[i].sh_type = SHT_SYMTAB }
        sections == [i \in 1..Len(raw) |-> NameAndLateInit(raw[i], raw[h.e_shstrndx + 1], raw)]
    IN  IF FirstErr(raw) # "none" THEN [err |-> FirstErr(raw)]
        ELSE IF Cardinality(symtabs) # 1 THEN [err |-> "AssertionError"]
        ELSE IF h.e_shstrndx >= Len(raw) THEN [err |-> "IndexError"]
        ELSE IF FirstErr(sections) # "none" THEN [err |-> FirstErr(sections)]
        ELSE [err |-> "none", elf_header |-> h, sections |-> sections,
              symtab |-> (CHOOSE i \in symtabs : TRUE) - 1]

\* Section.header_to_bin on bytes: the section with sh_size brought up to
\* date
HeaderUpdated(s) ==
    IF s.sh_type # SHT_NOBITS THEN [s EXCEPT !.sh_size = Len(s.data)] ELSE s

\* Section.header_to_bin on bytes: the packed header
HeaderToBin(s) ==
    pack(ShdrFormat, <<s.sh_name, s.sh_type, s.sh_flags, s.sh_addr, s.sh_offset,
                       HeaderUpdated(s).sh_size, s.sh_link, s.sh_info, s.sh_addralign,
                       s.sh_entsize>>)

\* the metas of the sections of an object parsed from bytes
ByteMetas(sections) ==
    [i \in 1..Len(sections) |->
        [sh_type |-> sections[i].sh_type, sh_addralign |-> sections[i].sh_addralign,
         sh_offset |-> sections[i].sh_offset, len |-> Len(sections[i].data)]]

\* ElfFile.write, lines 302-310: the object with e_shnum, every sh_offset
\* and sh_size, and e_shoff as the write leaves them
Placed(elf) ==
    LET offsets == WriteOffsets(ByteMetas(elf.sections), 1, EhdrSize)
    IN  [elf EXCEPT
          !.elf_header.e_shnum = Len(elf.sections),
          !.elf_header.e_shoff = pad_out(WriteCursor(ByteMetas(elf.sections), 1, EhdrSize), 4),
          !.sections = [i \in 1..Len(elf.sections) |->
                HeaderUpdated([elf.sections[i] EXCEPT !.sh_offset = offsets[i]])]]

\* ElfFile.write, lines 302-318, on the object so placed: the bytes of the
\* file, which are the header, every payload written at its sh_offset after
\* zero bytes of padding, zero bytes up to e_shoff, and the section headers
FileBytes(elf) ==
    LET payload(p) == { i \in 1..Len(elf.sections) :
                          /\ IsWritten(elf.sections[i])
                          /\ elf.sections[i].sh_offset < p
                          /\ p <= elf.sections[i].sh_offset + Len(elf.sections[i].data) }
    IN  ElfHeaderToBin(elf.elf_header)
          \o [q \in 1..(elf.elf_header.e_shoff - EhdrSize) |->
                IF payload(q + EhdrSize) = {} THEN 0
                ELSE LET s == elf.sections[CHOOSE i \in payload(q + EhdrSize) : TRUE]
                     IN  s.data[q + EhdrSize - s.sh_offset]]
          \o Flatten([i \in 1..Len(elf.sections) |-> HeaderToBin(elf.sections[i])])

(* ---------------------------------------------------------------- *)
(* Input files of the round trip                                    *)
(* ---------------------------------------------------------------- *)
\* the bytes between the payloads of an input file number 0 or RawGap
RawGap == 3
\* an inactive (SHT_NULL) header of an input file spans 0 or JunkSize bytes
JunkSize == 4

\* ".text", ".symtab", ".strtab", ".shstrtab", ".bss", ".rel.text",
\* ".rela.text", ".old" in ASCII
NameText == <<46, 116, 101, 120, 116>>
NameSymtab == <<46, 115, 121, 109, 116, 97, 98>>
NameStrtab == <<46, 115, 116, 114, 116, 97, 98>>
NameShstrtab == <<46, 115, 104, 115, 116, 114, 116, 97, 98>>
NameBss == <<46, 98, 115, 115>>
NameRelText == <<46, 114, 101, 108>> \o NameText
NameRelaText == <<46, 114, 101, 108, 97>> \o NameText
NameOld == <<46, 111, 108, 100>>

\* the bytes of a string table that holds the names, after the empty one
StrtabBytes(names) == <<0>> \o Flatten([k \in 1..Len(names) |-> names[k] \o <<0>>])

\* the offset of the k-th of the names in that table
StrtabOffset(names, k) == 1 + Sum([j \in 1..(k - 1) |-> Len(names[j]) + 1])

\* a section of an input file: size is the sh_size of a section without
\* payload, at the index (0: none) of the section whose sh_offset a
\* SHT_NULL header repeats
Part(name, sh_type, sh_flags, sh_link, sh_info, sh_addralign, sh_entsize, data, size, at) ==
    [name |-> name, sh_type |-> sh_type, sh_flags |-> sh_flags, sh_link |-> sh_link,
     sh_info |-> sh_info, sh_addralign |-> sh_addralign, sh_entsize |-> sh_entsize,
     data |-> data, size |-> size, at |-> at]

HasPayload(part) == part.sh_type # SHT_NULL /\ part.sh_type # SHT_NOBITS

RECURSIVE PartOffsets(_, _, _, _)
\* where the payloads of the parts from the i-th on lie, the first free
\* byte being cur
PartOffsets(parts, i, cur, gap) ==
    IF i > Len(parts) THEN <<>>
    ELSE IF HasPayload(parts[i])
    THEN <<cur + gap>> \o PartOffsets(parts, i + 1, cur + gap + Len(parts[i].data), gap)
    ELSE <<cur>> \o PartOffsets(parts, i + 1, cur, gap)

\* an object file: the header, the payloads gap bytes apart, and the
\* section header table either after them or (shtab_first) before them;
\* with shnum_zero the count of sections is held by the first section
\* header instead of e_shnum
ObjectBytes(parts, shstrndx, gap, shtab_first, shnum_zero, magic) ==
    LET n == Len(parts)
        names == [i \in 1..n |-> parts[i].name]
        start == IF shtab_first THEN EhdrSize + ShdrSize * n ELSE EhdrSize
        offsets == PartOffsets(parts, 1, start, gap)
        body == Flatten([i \in 1..n |->
                    IF HasPayload(parts[i]) THEN [k \in 1..gap |-> 238] \o parts[i].data
                    ELSE <<>>])
        padded == body \o Zeros(pad_out(start + Len(body), 4) - (start + Len(body)))
        e_shoff == IF shtab_first THEN EhdrSize ELSE start + Len(padded)
        header(i) ==
            LET part == parts[i]
            IN  pack(ShdrFormat,
                     << IF part.name = <<>> THEN 0 ELSE StrtabOffset(names, i), part.sh_type,
                        part.sh_flags, 0,
                        IF HasPayload(part) THEN offsets[i]
                        ELSE IF part.at # 0 THEN offsets[part.at + 1] ELSE 0,
                        IF HasPayload(part) THEN Len(part.data)
                        ELSE IF i = 1 /\ shnum_zero THEN n ELSE part.size,
                        part.sh_link, part.sh_info, part.sh_addralign, part.sh_entsize >>)
        shtab == Flatten([i \in 1..n |-> header(i)])
        ehdr == magic \o <<1, 2, 1, 0>> \o Zeros(8)
                  \o pack(EhdrFormat, <<1, 8, 1, 0, 0, e_shoff, 0, EhdrSize, 0, 0, ShdrSize,
                                        IF shnum_zero THEN 0 ELSE n, shstrndx>>)
    IN  IF shtab_first THEN ehdr \o shtab \o padded ELSE ehdr \o padded \o shtab

\* a packed symbol
SymbolBytes(st_name, st_value, bind, type, st_shndx) ==
    pack(SymFormat, <<st_name, st_value, 0, bind * 16 + type, 0, st_shndx>>)

\* the sections every input file has: .text, .symtab (the null symbol, a
\* function f of .text, an undefined g), .strtab and .shstrtab (whose
\* payload is filled in by Parts)
BaseParts(symtab_type) ==
    << Part(<<>>, SHT_NULL, 0, 0, 0, 0, 0, <<>>, 0, 0),
       Part(NameText, SHT_PROGBITS, 6, 0, 0, 16, 0, Bytes(8, 17), 0, 0),
       Part(NameSymtab, symtab_type, 0, 3, 1, 4, SymSize,
            SymbolBytes(0, 0, STB_LOCAL, STT_NOTYPE, SHN_UNDEF)
              \o SymbolBytes(1, 0, STB_GLOBAL, STT_FUNC, 1)
              \o SymbolBytes(3, 0, STB_GLOBAL, STT_NOTYPE, SHN_UNDEF), 0, 0),
       Part(NameStrtab, SHT_STRTAB, 0, 0, 0, 1, 0, StrtabBytes(<< <<102>>, <<103>> >>), 0, 0),
       Part(NameShstrtab, SHT_STRTAB, 0, 0, 0, 1, 0, <<>>, 0, 0) >>

\* the sections an input file may have besides
BssParts == { <<>>, << Part(NameBss, SHT_NOBITS, 3, 0, 0, 8, 0, <<>>, 8, 0) >> }

RelParts ==
    { <<>>,
      << Part(NameRelText, SHT_REL, 0, 2, 1, 4, RelSize,
              pack(RelFormat, <<0, 2 * 256 + R_MIPS_26>>), 0, 0) >>,
      << Part(NameRelaText, SHT_RELA, 0, 2, 1, 4, RelaSize,
              pack(RelaFormat, <<4, 1 * 256 + R_MIPS_32, 8>>), 0, 0) >> }

\* an inactive header that still spans size bytes of the payload of .text
OldParts ==
    { <<>> } \cup { << Part(NameOld, SHT_NULL, 0, 0, 0, 0, 0, <<>>, size, 1) >> : size \in {0, JunkSize} }

\* the parts with the payload of .shstrtab (index 4) filled in
Parts(symtab_type, extra) ==
    LET parts == BaseParts(symtab_type) \o extra
    IN  [parts EXCEPT ![5].data = StrtabBytes([i \in 1..Len(parts) |-> parts[i].name])]

\* the files tried: well-formed objects in every layout, and files that
\* ElfFile rejects (no symbol table, no magic, e_shstrndx = SHN_UNDEF)
RawInputs ==
    { ObjectBytes(Parts(SHT_SYMTAB, bss \o rel \o old), 4, gap, shtab_first, shnum_zero, Magic) :
        bss \in BssParts, rel \in RelParts, old \in OldParts, gap \in {0, RawGap},
        shtab_first \in BOOLEAN, shnum_zero \in BOOLEAN }
    \cup { ObjectBytes(Parts(SHT_PROGBITS, <<>>), 4, gap, FALSE, FALSE, Magic) : gap \in {0, RawGap} }
    \cup { ObjectBytes(Parts(SHT_SYMTAB, <<>>), 4, gap, FALSE, FALSE, Zeros(4)) : gap \in {0, RawGap} }
    \cup { ObjectBytes(Parts(SHT_SYMTAB, <<>>), 0, gap, FALSE, FALSE, Magic) : gap \in {0, RawGap} }

(* ---------------------------------------------------------------- *)
(* The round trip: ElfFile(data); write; ElfFile(written)            *)
(* ---------------------------------------------------------------- *)
InitRT ==
    /\ pc = "off"
    /\ err = "none"
    /\ functions = <<>>
    /\ disk = Absent
    /\ objfile = NoElf
    /\ o_file = Absent
    /\ s_file = Absent
    /\ asm_objfile = NoElf
    /\ prev_loc = 0
    /\ to_copy = <<>>
    /\ asm = <<>>
    /\ temp_names = {}
    /\ fn_names = {}
    /\ new_entries = <<>>
    /\ \E data \in RawInputs : rt = [pc |-> "input", data |-> data]

Idle ==
    UNCHANGED <<pc, err, functions, disk, o_file, s_file, objfile, asm_objfile,
                prev_loc, to_copy, asm, temp_names, fn_names, new_entries>>

\* the file that is parsed next: the input, or what write has left
File == IF rt.pc = "input" THEN rt.data ELSE rt.out

\* ElfFile(data) on the input, and ElfFile(written) on the file written
RTParse ==
    /\ rt.pc \in {"input", "written"}
    /\ \E h \in {ReadHeader(File)} :
         \E raw \in {IF h.err = "none" THEN ReadSections(File, h) ELSE <<>>} :
           \E elf \in {IF h.err = "none" THEN ElfFileInit(h, raw) ELSE h} :
              rt' = IF elf.err # "none"
                    THEN [pc |-> IF rt.pc = "input" THEN "rejected" ELSE "unreadable",
                          data |-> rt.data, err |-> elf.err]
                    ELSE IF rt.pc = "input"
                    THEN [pc |-> "parsed", data |-> rt.data, elf |-> elf]
                    ELSE [pc |-> "reparsed", data |-> rt.data, elf |-> rt.elf,
                          left |-> rt.left, out |-> rt.out, again |-> elf]
    /\ Idle

\* elf.write(filename), at once: open(filename, 'wb') empties the file,
\* struct.error (e_shnum does not fit 'H') leaves it so
RTWrite ==
    /\ rt.pc = "parsed"
    /\ \E left \in {Placed(rt.elf)} :
          rt' = IF Len(rt.elf.sections) > MaxHalf
                THEN [pc |-> "failed", data |-> rt.data, err |-> "struct.error", out |-> <<>>]
                ELSE [pc |-> "written", data |-> rt.data, elf |-> rt.elf,
                      left |-> left, out |-> FileBytes(left)]
    /\ Idle

NextRT == RTParse \/ RTWrite

SpecRT == InitRT /\ [][NextRT]_vars

(* ---------------------------------------------------------------- *)
(* Properties of the round trip                                     *)
(* ---------------------------------------------------------------- *)
\* the object parsed from the input and the object parsed from the file
\* written
First == rt.elf
Again == rt.again

\* the fields of a section that the round trip is to keep
SameSection(a, b) ==
    /\ a.name = b.name
    /\ a.sh_type = b.sh_type
    /\ a.sh_flags = b.sh_flags
    /\ a.sh_addr = b.sh_addr
    /\ a.sh_link = b.sh_link
    /\ a.sh_info = b.sh_info
    /\ a.sh_addralign = b.sh_addralign
    /\ a.sh_entsize = b.sh_entsize
    /\ a.relocations = b.relocations

\* the sections whose payload the file written holds
Emitted == { i \in 1..Len(Again.sections) :
                Again.sections[i].sh_type # SHT_NULL /\ Again.sections[i].sh_type # SHT_NOBITS }

\* the payloads written lie between the 52-byte header and the section
\* header table, apart from one another, each at a multiple of its nonzero
\* sh_addralign; e_shoff and e_shnum describe the table at the end
LayoutSound ==
    /\ \A i \in Emitted :
          LET s == Again.sections[i]
          IN  /\ 52 <= s.sh_offset
              /\ s.sh_offset + s.sh_size <= Again.elf_header.e_shoff
              /\ s.sh_addralign # 0 => s.sh_offset % s.sh_addralign = 0
              /\ \A j \in Emitted \ {i} :
                    \/ s.sh_offset + s.sh_size <= Again.sections[j].sh_offset
                    \/ Again.sections[j].sh_offset + Again.sections[j].sh_size <= s.sh_offset
    /\ Again.elf_header.e_shnum = Len(Again.sections)
    /\ Len(rt.out) = Again.elf_header.e_shoff + 40 * Again.elf_header.e_shnum

\* the round trip keeps the sections, of which those in Payloads keep
\* their payload, the symbols and the relocations, and lays the file out
\* soundly
RoundTrip(Payloads) ==
    /\ rt.pc \notin {"failed", "unreadable"}
    /\ rt.pc = "reparsed" =>
          /\ Len(Again.sections) = Len(First.sections)
          /\ \A i \in 1..Len(First.sections) : SameSection(First.sections[i], Again.sections[i])
          /\ \A i \in Payloads : First.sections[i].data = Again.sections[i].data
          /\ Again.symtab = First.symtab
          /\ Again.sections[Again.symtab + 1].symbol_entries
                = First.sections[First.symtab + 1].symbol_entries
          /\ LayoutSound

Loc(i) == find_symbol(SymtabOf(Before), functions[i].temp_fn_name)[2] \div 4

\* prev_loc when the i-th function is reached
PrevLoc(i) == IF i = 1 THEN 0 ELSE Loc(i - 1) + functions[i - 1].num_instr

RECURSIVE BodyStart(_)
\* the number of lines that are to precede the body of the i-th function:
\* the bodies before it and Loc(j) - PrevLoc(j) lines for each j up to i
BodyStart(i) ==
    (IF i = 1 THEN 0 ELSE BodyStart(i - 1) + Len(functions[i - 1].body))
        + (Loc(i) - PrevLoc(i))

\* every body holds as many instruction lines as its num_instr says
BodiesCounted ==
    \A i \in 1..Len(functions) : instr_count(functions[i].body) = functions[i].num_instr

\* C11: once the placeholders are located, the assembly holds, for each
\* function in the order of the list, exactly loc - prev_loc nop lines and
\* then its body (prev_loc being 0 at first and loc + num_instr after a
\* function) and nothing else; when every body holds num_instr instruction
\* lines, loc instruction lines precede the body of a function whose
\* placeholder lies at word loc; the copy plan holds (loc, num_instr) in
\* the order of the list.
C11_NopPadding ==
    pc = "temps" =>
        LET n == Len(functions)
        IN  /\ \A i \in 1..n :
                  /\ Loc(i) >= PrevLoc(i)
                  /\ BodyStart(i) + Len(functions[i].body) <= Len(asm)
                  /\ \A k \in (BodyStart(i) - (Loc(i) - PrevLoc(i)) + 1)..BodyStart(i) :
                        asm[k] = "nop"
                  /\ SubSeq(asm, BodyStart(i) + 1, BodyStart(i) + Len(functions[i].body))
                        = functions[i].body
                  /\ BodiesCounted => instr_count(SubSeq(asm, 1, BodyStart(i))) = Loc(i)
            /\ Len(asm) = IF n = 0 THEN 0 ELSE BodyStart(n) + Len(functions[n].body)
            /\ prev_loc = IF n = 0 THEN 0 ELSE Loc(n) + functions[n].num_instr
            /\ to_copy = [i \in 1..n |-> <<Loc(i), functions[i].num_instr>>]

\* C11 witness: two functions located, nop lines ahead of the second body
\* with prev_loc no longer 0
C11_Witness ==
    /\ pc = "temps"
    /\ Len(functions) = 2
    /\ BodiesCounted
    /\ PrevLoc(2) > 0
    /\ Loc(2) > PrevLoc(2)
    /\ asm[BodyStart(2)] = "nop"

====
